---- MODULE Spec2Model ----
(***************************************************************************)
(* Model of pkg/hyper/hyper.go: the HyperContainer implementation of the   *)
(* kubelet runtime API (Runtime), which translates sandbox operations into *)
(* calls on the hyperd client.                                             *)
(*                                                                         *)
(* Strings the code takes apart (pod names, label keys, pod ids) are       *)
(* sequences of one-character strings; strings it only compares (phases,   *)
(* label values, addresses, errors) are TLA+ strings.  An int64 is its     *)
(* two's complement bit pattern: eight bytes, least significant first.     *)
(***************************************************************************)
EXTENDS Integers, Sequences, FiniteSets, TLC

VARIABLES
    pods,        \* hyperd: the pod records, in the order GetPodList returns them
    nextID,      \* hyperd: number of pods created so far (ids are never reused)
    pc,          \* per caller: where its RunPodSandbox call stands
    frame,       \* per caller: locals of its RunPodSandbox call (podID, err)
    calls,       \* per caller: client calls its RunPodSandbox call has made
    ret,         \* the call that returned last: operation, result, client calls
    runFailed,   \* ids created by a RunPodSandbox call that returned an error
    removeTried, \* ids of created pods a RemovePod call was since made on
    removed,     \* ids of created pods a RemovePod call has since succeeded on
    runSucceeded, \* ids a RunPodSandbox call has returned with a nil error
    compensated, \* ids a RunPodSandbox call has passed to its RemovePod
    createdFrom  \* (id, metadata) of the pods created by RunPodSandbox calls

vars == <<pods, nextID, pc, frame, calls, ret, runFailed, removeTried, removed,
          runSucceeded, compensated, createdFrom>>

(***************************************************************************)
(* Bounds of the model.                                                    *)
(***************************************************************************)
NumCallers == 2     \* concurrent callers of the Runtime
MaxCreates == 2     \* CreatePod successes hyperd grants in one behaviour
MaxListLen == 3     \* longest pod list of the listing specification

Callers == 1..NumCallers

(***************************************************************************)
(* Options (Go pointers and nil-able maps): <<>> is nil, <<x>> is set.     *)
(***************************************************************************)
None == <<>>
Some(x) == <<x>>
IsSet(o) == o # <<>>
Get(o) == o[1]

NoErr == "nil"

(***************************************************************************)
(* int64 arithmetic on bit patterns.                                       *)
(***************************************************************************)
Byte == 2^8
I64Len == 64 \div 8

RECURSIVE NatBytes(_, _)
NatBytes(n, len) ==
    IF len = 0 THEN <<>> ELSE <<n % Byte>> \o NatBytes(n \div Byte, len - 1)

Zeros(len) == [i \in 1..len |-> 0]

RECURSIVE AddSmall(_, _)
AddSmall(a, n) ==
    IF a = <<>> THEN <<>>
    ELSE LET s == a[1] + n IN <<s % Byte>> \o AddSmall(Tail(a), s \div Byte)

RECURSIVE MulSmall(_, _, _)
MulSmall(a, m, carry) ==
    IF a = <<>> THEN <<>>
    ELSE LET s == a[1] * m + carry
         IN <<s % Byte>> \o MulSmall(Tail(a), m, s \div Byte)

\* The k-th column of the schoolbook product of a and b.
RECURSIVE ColSum(_, _, _, _)
ColSum(a, b, k, i) ==
    IF i > k THEN 0
    ELSE (IF i <= Len(a) /\ k + 1 - i <= Len(b) THEN a[i] * b[k + 1 - i] ELSE 0)
         + ColSum(a, b, k, i + 1)

\* The low len bytes of a * b, from byte k on.
RECURSIVE MulBytes(_, _, _, _, _)
MulBytes(a, b, k, carry, len) ==
    IF k > len THEN <<>>
    ELSE LET s == ColSum(a, b, k, 1) + carry
         IN <<s % Byte>> \o MulBytes(a, b, k + 1, s \div Byte, len)

IsNeg(a) == a[Len(a)] >= Byte \div 2

\* Two's complement negation: invert, add one.
I64Neg(a) == AddSmall([i \in 1..Len(a) |-> Byte - 1 - a[i]], 1)

\* Go's int64 product: the low 64 bits of the product (overflow wraps).
I64Mul(a, b) == MulBytes(a, b, 1, 0, I64Len)

I64FromNat(n) == NatBytes(n, I64Len)

RECURSIVE DecBytes(_, _)
DecBytes(digits, acc) ==
    IF digits = <<>> THEN acc
    ELSE DecBytes(Tail(digits), AddSmall(MulSmall(acc, 10, 0), Head(digits)))

\* The int64 with the given sign and decimal digits.
I64Dec(neg, digits) ==
    LET m == DecBytes(digits, Zeros(I64Len)) IN IF neg THEN I64Neg(m) ELSE m

RECURSIVE ULess(_, _, _)
ULess(a, b, i) ==
    IF i = 0 THEN FALSE
    ELSE IF a[i] # b[i] THEN a[i] < b[i] ELSE ULess(a, b, i - 1)

FlipSign(a) == [a EXCEPT ![Len(a)] = (a[Len(a)] + Byte \div 2) % Byte]

\* Signed comparison of two int64.
I64Less(a, b) == ULess(FlipSign(a), FlipSign(b), I64Len)
I64LessEq(a, b) == a = b \/ I64Less(a, b)

secondToNano == 1000000000

(***************************************************************************)
(* Exact integers, to state what the int64 results should be: a sign and   *)
(* a magnitude wide enough for any int64 times secondToNano.               *)
(***************************************************************************)
WideLen == I64Len + 4

Widen(a) == a \o Zeros(WideLen - Len(a))

\* The integer an int64 bit pattern stands for.
MathOf(a) ==
    LET mag == Widen(IF IsNeg(a) THEN I64Neg(a) ELSE a)
    IN [neg |-> IsNeg(a), mag |-> mag]

\* m times the natural number n, exactly.
MathTimes(m, n) ==
    LET mag == MulBytes(m.mag, NatBytes(n, 4), 1, 0, WideLen)
    IN [neg |-> m.neg /\ mag # Zeros(WideLen), mag |-> mag]

(***************************************************************************)
(* Strings.                                                                *)
(***************************************************************************)
Digits == <<"0", "1", "2", "3", "4", "5", "6", "7", "8", "9">>
IsDigit(ch) == \E d \in 1..10 : Digits[d] = ch
DigitVal(ch) == (CHOOSE d \in 1..10 : Digits[d] = ch) - 1

\* strconv.FormatUint(n, 10)
RECURSIVE FormatUint(_)
FormatUint(n) ==
    IF n < 10 THEN <<Digits[n + 1]>>
    ELSE FormatUint(n \div 10) \o <<Digits[(n % 10) + 1]>>

RECURSIVE DigitsVal(_, _)
DigitsVal(s, acc) ==
    IF s = <<>> THEN acc ELSE DigitsVal(Tail(s), acc * 10 + DigitVal(Head(s)))

\* strconv.ParseUint(s, 10, 32): None when s is empty or holds a non-digit.
ParseUint(s) ==
    IF s = <<>> \/ \E i \in 1..Len(s) : ~IsDigit(s[i]) THEN None
    ELSE Some(DigitsVal(s, 0))

\* strings.Split(s, sep): the fields of s between occurrences of sep.
RECURSIVE SplitFrom(_, _, _, _)
SplitFrom(s, sep, cur, out) ==
    IF s = <<>> THEN Append(out, cur)
    ELSE IF Head(s) = sep THEN SplitFrom(Tail(s), sep, <<>>, Append(out, cur))
    ELSE SplitFrom(Tail(s), sep, Append(cur, Head(s)), out)

Split(s, sep) == SplitFrom(s, sep, <<>>, <<>>)

HasPrefix(s, p) == Len(s) >= Len(p) /\ SubSeq(s, 1, Len(p)) = p
TrimPrefix(s, p) == SubSeq(s, Len(p) + 1, Len(s))

(***************************************************************************)
(* The sandbox name: namespace, name, uid and attempt joined by the        *)
(* separator.                                                              *)
(***************************************************************************)
nameSeparator == "_"

buildSandboxName(m) ==
    m.Namespace \o <<nameSeparator>> \o m.Name \o <<nameSeparator>> \o m.Uid
        \o <<nameSeparator>> \o FormatUint(m.Attempt)

\* (podName, podNamespace, podUID, attempt, err)
parseSandboxName(name) ==
    LET parts == Split(name, nameSeparator)
        bad == [podName |-> <<>>, podNamespace |-> <<>>, podUID |-> <<>>,
                attempt |-> 0, err |-> "InvalidNameFormat"]
    IN IF Len(parts) # 4 THEN bad
       ELSE IF ~IsSet(ParseUint(parts[4])) THEN bad
       ELSE [podName |-> parts[2], podNamespace |-> parts[1], podUID |-> parts[3],
             attempt |-> Get(ParseUint(parts[4])), err |-> NoErr]

(***************************************************************************)
(* Phase, labels and annotations.                                          *)
(***************************************************************************)
toPodSandboxState(phase) == IF phase = "running" THEN "Ready" ELSE "NotReady"

annotationMarker == <<"@">>

getAnnotationsFromLabels(labels) ==
    [k \in {TrimPrefix(key, annotationMarker) :
                key \in {x \in DOMAIN labels : HasPrefix(x, annotationMarker)}}
        |-> labels[annotationMarker \o k]]

getKubeletLabels(labels) ==
    [k \in {x \in DOMAIN labels : ~HasPrefix(x, annotationMarker)} |-> labels[k]]

\* The engine's single map holding labels and marked annotations.
mergeLabels(labels, annotations) ==
    [k \in DOMAIN labels \cup {annotationMarker \o a : a \in DOMAIN annotations} |->
        IF k \in DOMAIN labels THEN labels[k]
        ELSE annotations[TrimPrefix(k, annotationMarker)]]

\* Every pair of the selector is in the labels.
inMap(selector, labels) ==
    \A k \in DOMAIN selector : k \in DOMAIN labels /\ labels[k] = selector[k]

(***************************************************************************)
(* sortByCreatedAt: a stable insertion sort, oldest first.                 *)
(***************************************************************************)
RECURSIVE InsertByCreatedAt(_, _)
InsertByCreatedAt(sorted, item) ==
    IF sorted = <<>> THEN <<item>>
    ELSE IF I64Less(item.CreatedAt, sorted[Len(sorted)].CreatedAt)
         THEN Append(InsertByCreatedAt(SubSeq(sorted, 1, Len(sorted) - 1), item),
                     sorted[Len(sorted)])
         ELSE Append(sorted, item)

RECURSIVE SortFrom(_, _)
SortFrom(items, sorted) ==
    IF items = <<>> THEN sorted
    ELSE SortFrom(Tail(items), InsertByCreatedAt(sorted, Head(items)))

sortByCreatedAt(items) == SortFrom(items, <<>>)

(***************************************************************************)
(* buildUserPod: the engine-facing pod specification of a sandbox config.  *)
(***************************************************************************)
buildUserPod(config) ==
    IF ~IsSet(config.Metadata)
    THEN [pod |-> None, err |-> "SpecBuildError"]
    ELSE [pod |-> Some([PodName |-> buildSandboxName(Get(config.Metadata)),
                        Labels |-> mergeLabels(config.Labels, config.Annotations)]),
          err |-> NoErr]

(***************************************************************************)
(* The translations of PodSandboxStatus and ListPodSandbox, given what the *)
(* client returned.                                                        *)
(***************************************************************************)
\* Mutant: seconds scaled to microseconds.
createdAtMicro(createdAt) == I64Mul(createdAt, I64FromNat(1000000))

createdAtNano(createdAt) == I64Mul(createdAt, I64FromNat(secondToNano))

\* Mutant: the last address instead of the first.
podIPLast(info) == IF Len(info.PodIP) > 0 THEN info.PodIP[Len(info.PodIP)] ELSE ""

podIP(info) == IF Len(info.PodIP) > 0 THEN info.PodIP[1] ELSE ""

podSandboxMetadata(parsed) ==
    [Name |-> parsed.podName, Uid |-> parsed.podUID,
     Namespace |-> parsed.podNamespace, Attempt |-> parsed.attempt]

\* Mutant: a status with the id and default metadata is returned beside the
\* error.
statusFailedDefault(podSandboxID, err) ==
    [val |-> Some([Id |-> podSandboxID,
                   Metadata |-> [Name |-> <<>>, Uid |-> <<>>, Namespace |-> <<>>,
                                 Attempt |-> 0],
                   State |-> "NotReady",
                   Network |-> [Ip |-> ""],
                   CreatedAt |-> I64FromNat(0),
                   Labels |-> <<>>,
                   Annotations |-> <<>>]),
     err |-> err]

\* PodSandboxStatus's error returns: (nil, err).
statusFailed(podSandboxID, err) == [val |-> None, err |-> err]

\* Mutant: a phase that is neither running nor pending fails the call.
PodSandboxStatusResultStrictPhase(podSandboxID, info) ==
    LET parsed == parseSandboxName(info.PodName)
    IN IF info.Phase \notin {"running", "pending"}
       THEN statusFailed(podSandboxID, "UnknownPhase")
       ELSE IF parsed.err # NoErr
       THEN statusFailed(podSandboxID, parsed.err)
       ELSE [val |-> Some([Id |-> podSandboxID,
                           Metadata |-> podSandboxMetadata(parsed),
                           State |-> toPodSandboxState(info.Phase),
                           Network |-> [Ip |-> podIP(info)],
                           CreatedAt |-> createdAtNano(info.CreatedAt),
                           Labels |-> getKubeletLabels(info.Labels),
                           Annotations |-> getAnnotationsFromLabels(info.Labels)]),
             err |-> NoErr]

\* Mutant: the status carries the engine's labels as they are.
PodSandboxStatusResultRawLabels(podSandboxID, info) ==
    LET parsed == parseSandboxName(info.PodName)
    IN IF parsed.err # NoErr
       THEN statusFailed(podSandboxID, parsed.err)
       ELSE [val |-> Some([Id |-> podSandboxID,
                           Metadata |-> podSandboxMetadata(parsed),
                           State |-> toPodSandboxState(info.Phase),
                           Network |-> [Ip |-> podIP(info)],
                           CreatedAt |-> createdAtNano(info.CreatedAt),
                           Labels |-> info.Labels,
                           Annotations |-> getAnnotationsFromLabels(info.Labels)]),
             err |-> NoErr]

\* PodSandboxStatus once GetPodInfo has returned info: (podStatus, err).
PodSandboxStatusResult(podSandboxID, info) ==
    LET state == toPodSandboxState(info.Phase)
        parsed == parseSandboxName(info.PodName)
    IN IF parsed.err # NoErr
       THEN statusFailed(podSandboxID, parsed.err)
       ELSE [val |-> Some([Id |-> podSandboxID,
                           Metadata |-> podSandboxMetadata(parsed),
                           State |-> state,
                           Network |-> [Ip |-> podIP(info)],
                           CreatedAt |-> createdAtNano(info.CreatedAt),
                           Labels |-> getKubeletLabels(info.Labels),
                           Annotations |-> getAnnotationsFromLabels(info.Labels)]),
             err |-> NoErr]

\* Mutant: the state clause is left out of the filter.
filteredOutNoState(filter, pod, state) ==
    /\ IsSet(filter)
    /\ \/ IsSet(Get(filter).Id) /\ pod.PodID # Get(Get(filter).Id)
       \/ IsSet(Get(filter).LabelSelector)
            /\ ~inMap(Get(Get(filter).LabelSelector), pod.Labels)

\* The filter's "continue" conditions: TRUE when the pod is left out.
filteredOut(filter, pod, state) ==
    /\ IsSet(filter)
    /\ \/ IsSet(Get(filter).Id) /\ pod.PodID # Get(Get(filter).Id)
       \/ IsSet(Get(filter).State) /\ state # Get(Get(filter).State)
       \/ IsSet(Get(filter).LabelSelector)
            /\ ~inMap(Get(Get(filter).LabelSelector), pod.Labels)

podSandbox(pod, state, parsed) ==
    [Id |-> pod.PodID,
     Metadata |-> podSandboxMetadata(parsed),
     Labels |-> pod.Labels,
     State |-> state,
     CreatedAt |-> createdAtNano(pod.CreatedAt)]

\* Mutant: the summaries built so far are returned beside the error.
listFailedPartial(items, err) == [val |-> Some(items), err |-> err]

\* The loop's return when a pod name does not parse.
listFailed(items, err) == [val |-> None, err |-> err]

\* The loop over the pods: (items, err) when it ends.
RECURSIVE listLoop(_, _, _)
listLoop(rest, filter, items) ==
    IF rest = <<>> THEN [val |-> Some(items), err |-> NoErr]
    ELSE LET pod == Head(rest)
             state == toPodSandboxState(pod.Phase)
             parsed == parseSandboxName(pod.PodName)
         IN IF parsed.err # NoErr THEN listFailed(items, parsed.err)
            ELSE IF filteredOut(filter, pod, state)
                 THEN listLoop(Tail(rest), filter, items)
                 ELSE listLoop(Tail(rest), filter,
                               Append(items, podSandbox(pod, state, parsed)))

\* Mutant: the items are returned in the loop's order, unsorted.
ListPodSandboxResultUnsorted(podList, filter) == listLoop(podList, filter, <<>>)

\* ListPodSandbox once GetPodList has returned podList: (items, err).
ListPodSandboxResult(podList, filter) ==
    LET looped == listLoop(podList, filter, <<>>)
    IN IF looped.err # NoErr THEN looped
       ELSE [val |-> Some(sortByCreatedAt(Get(looped.val))), err |-> NoErr]

(***************************************************************************)
(* hyperd behind the client.  Any call may fail; a call on a pod hyperd    *)
(* does not hold fails, except RemovePod, whose answer for an absent pod   *)
(* is hyperd's own.  A failed call changes nothing.                        *)
(***************************************************************************)
PodIDOf(n) == <<"p">> \o FormatUint(n)
PodIDs == {PodIDOf(n) : n \in 1..MaxCreates}

Issued(id) == \E n \in 1..nextID : id = PodIDOf(n)
HasPod(id) == \E i \in 1..Len(pods) : pods[i].PodID = id
PodOf(id) == pods[CHOOSE i \in 1..Len(pods) : pods[i].PodID = id]
IsNotPod(id) == LET Keep(p) == p.PodID # id IN SelectSeq(pods, Keep)
WithPhase(id, phase, ips) ==
    [i \in 1..Len(pods) |->
        IF pods[i].PodID = id THEN [pods[i] EXCEPT !.Phase = phase, !.PodIP = ips]
        ELSE pods[i]]

NewPod(podID, userpod) ==
    [PodID |-> podID, PodName |-> userpod.PodName, Phase |-> "pending",
     Labels |-> userpod.Labels, CreatedAt |-> I64FromNat(1000 + nextID),
     PodIP |-> <<>>]

CreatePodOutcomes(userpod) ==
    IF IsSet(userpod) /\ nextID < MaxCreates THEN BOOLEAN ELSE {FALSE}
OnPodOutcomes(id) == IF HasPod(id) THEN BOOLEAN ELSE {FALSE}

\* A client call as the log keeps it: the primitive, the id it was given or
\* has returned, whether it succeeded, and the code and cause it reported
\* beside its error (StopPod alone reports them).
Call(op, id, ok) == [op |-> op, id |-> id, ok |-> ok, code |-> 0, cause |-> ""]

\* The (code, cause) pairs StopPod reports: nothing when it succeeds, one of
\* two diagnostics when it fails.
StopPodDiagnostics(ok) ==
    IF ok THEN {[code |-> 0, cause |-> ""]}
    ELSE {[code |-> -1, cause |-> "NoSuchPod"], [code |-> 500, cause |-> "ShutdownTimeout"]}

StopPodCall(id, ok, diag) ==
    [Call("StopPod", id, ok) EXCEPT !.code = diag.code, !.cause = diag.cause]
ErrOf(op, ok) == IF ok THEN NoErr ELSE op \o "Error"

(***************************************************************************)
(* RunPodSandbox, one step per client call.  Each after... operator is the *)
(* code between two client calls: it returns, or goes on to the next call. *)
(***************************************************************************)
Return(val, err) == [next |-> "return", val |-> val, err |-> err]
Goto(next, podID, err) == [next |-> next, val |-> podID, err |-> err]

\* Mutant: the build error is not checked before CreatePod.
afterBuildUserPodUnchecked(err) == Goto("create", <<>>, NoErr)

afterBuildUserPod(err) ==
    IF err # NoErr THEN Return(<<>>, err) ELSE Goto("create", <<>>, NoErr)

\* Mutant: the CreatePod error is not checked before StartPod.
afterCreatePodUnchecked(podID, err) == Goto("start", podID, NoErr)

afterCreatePod(podID, err) ==
    IF err # NoErr THEN Return(<<>>, err) ELSE Goto("start", podID, NoErr)

\* Mutant: a failed StartPod returns at once, with no RemovePod.
afterStartPodNoRemove(podID, err) ==
    IF err # NoErr THEN Return(<<>>, err) ELSE Return(podID, NoErr)

\* Mutant: the id to remove is read from a place all callers share, which
\* holds the id CreatePod returned last.
afterStartPodSharedID(podID, err) ==
    IF err # NoErr THEN Goto("remove", PodIDOf(nextID), err) ELSE Return(podID, NoErr)

\* Mutant: a failed StartPod is tried again.
afterStartPodRetried(podID, err) ==
    IF err # NoErr THEN Goto("start", podID, NoErr) ELSE Return(podID, NoErr)

\* Mutant: the StartPod error is dropped and the id returned.
afterStartPodSwallowed(podID, err) == Return(podID, NoErr)

afterStartPod(podID, err) ==
    IF err # NoErr THEN Goto("remove", podID, err) ELSE Return(podID, NoErr)

\* Mutant: a RemovePod failure replaces the StartPod error.
afterRemovePodMasking(err, removeError) ==
    Return(<<>>, IF removeError # NoErr THEN removeError ELSE err)

afterRemovePod(err, removeError) == Return(<<>>, err)

NoReturn == [op |-> "none", arg |-> <<>>, val |-> <<>>, err |-> NoErr,
             calls |-> <<>>]

\* Caller c's call of op with arg returns (val, err), having made the calls of log.
Returns(c, op, arg, val, err, log) ==
    ret' = [op |-> op, arg |-> arg, val |-> val, err |-> err, calls |-> log]

NoFrame == [podID |-> <<>>, err |-> NoErr, created |-> <<>>, config |-> <<>>]

\* Caller c's RunPodSandbox call, having made the calls of log, takes the step:
\* it returns or moves on to the next client call.  created is the id of the
\* pod the call has created, <<>> when none.
Proceed(c, config, step, created, log) ==
    IF step.next = "return"
    THEN /\ Returns(c, "RunPodSandbox", config, step.val, step.err, log)
         /\ pc' = [pc EXCEPT ![c] = "idle"]
         /\ frame' = [frame EXCEPT ![c] = NoFrame]
         /\ calls' = [calls EXCEPT ![c] = <<>>]
         /\ runFailed' = IF step.err # NoErr /\ created # <<>>
                         THEN runFailed \cup {created} ELSE runFailed
         /\ runSucceeded' = IF step.err = NoErr
                            THEN runSucceeded \cup {step.val} ELSE runSucceeded
    ELSE /\ pc' = [pc EXCEPT ![c] = step.next]
         /\ frame' = [frame EXCEPT ![c] = [podID |-> step.val, err |-> step.err,
                                           created |-> created, config |-> config]]
         /\ calls' = [calls EXCEPT ![c] = log]
         /\ UNCHANGED <<ret, runFailed, runSucceeded>>

RunPodSandboxCreate(c, config) ==
    /\ pc[c] = "idle"
    /\ LET built == buildUserPod(config)
           first == afterBuildUserPod(built.err)
       IN IF first.next = "return"
          THEN /\ Proceed(c, config, first, <<>>, <<>>)
               /\ UNCHANGED <<pods, nextID, createdFrom>>
          ELSE \E ok \in CreatePodOutcomes(built.pod) :
               LET podID == IF ok THEN PodIDOf(nextID + 1) ELSE <<>>
               IN /\ pods' = IF ok THEN Append(pods, NewPod(podID, Get(built.pod)))
                             ELSE pods
                  /\ nextID' = IF ok THEN nextID + 1 ELSE nextID
                  /\ createdFrom' = IF ok
                                    THEN createdFrom \cup {<<podID, Get(config.Metadata)>>}
                                    ELSE createdFrom
                  /\ Proceed(c, config, afterCreatePod(podID, ErrOf("CreatePod", ok)),
                             podID, <<Call("CreatePod", podID, ok)>>)
    /\ UNCHANGED <<removeTried, removed, compensated>>

RunPodSandboxStart(c) ==
    /\ pc[c] = "start"
    /\ \E ok \in OnPodOutcomes(frame[c].podID) :
          /\ pods' = IF ok THEN WithPhase(frame[c].podID, "running", <<"10.0.0.5">>)
                     ELSE pods
          /\ Proceed(c, frame[c].config,
                     afterStartPod(frame[c].podID, ErrOf("StartPod", ok)),
                     frame[c].created,
                     Append(calls[c], Call("StartPod", frame[c].podID, ok)))
    /\ UNCHANGED <<nextID, removeTried, removed, compensated, createdFrom>>

RunPodSandboxRemove(c) ==
    /\ pc[c] = "remove"
    /\ \E ok \in BOOLEAN :
          /\ pods' = IF ok THEN IsNotPod(frame[c].podID) ELSE pods
          /\ removeTried' = IF Issued(frame[c].podID)
                            THEN removeTried \cup {frame[c].podID} ELSE removeTried
          /\ removed' = IF ok /\ Issued(frame[c].podID)
                        THEN removed \cup {frame[c].podID} ELSE removed
          /\ Proceed(c, frame[c].config,
                     afterRemovePod(frame[c].err, ErrOf("RemovePod", ok)),
                     frame[c].created,
                     Append(calls[c], Call("RemovePod", frame[c].podID, ok)))
    /\ compensated' = compensated \cup {frame[c].podID}
    /\ UNCHANGED <<nextID, createdFrom>>

(***************************************************************************)
(* The operations of one client call each.                                 *)
(***************************************************************************)
\* StopPodSandbox's return once StopPod has returned (code, cause, err): the
\* error and nothing else; code and cause go to the error log only.
afterStopPod(code, cause, err) == [val |-> <<>>, err |-> err]

StopPodSandbox(c, podSandboxID) ==
    /\ pc[c] = "idle"
    /\ \E ok \in OnPodOutcomes(podSandboxID) :
       \E diag \in StopPodDiagnostics(ok) :
          LET res == afterStopPod(diag.code, diag.cause, ErrOf("StopPod", ok))
          IN /\ pods' = IF ok THEN WithPhase(podSandboxID, "succeeded", <<>>)
                        ELSE pods
             /\ Returns(c, "StopPodSandbox", podSandboxID, res.val, res.err,
                        <<StopPodCall(podSandboxID, ok, diag)>>)
    /\ UNCHANGED <<nextID, pc, frame, calls, runFailed, removeTried, removed,
                   runSucceeded, compensated, createdFrom>>

\* Mutant: the RemovePod error is taken for "already gone" and dropped.
afterDeleteRemovePodForgiving(err) == [val |-> <<>>, err |-> NoErr]

\* DeletePodSandbox's return once RemovePod has returned err.
afterDeleteRemovePod(err) == [val |-> <<>>, err |-> err]

DeletePodSandbox(c, podSandboxID) ==
    /\ pc[c] = "idle"
    /\ \E ok \in BOOLEAN :
          LET res == afterDeleteRemovePod(ErrOf("RemovePod", ok))
          IN /\ pods' = IF ok THEN IsNotPod(podSandboxID) ELSE pods
             /\ removeTried' = IF Issued(podSandboxID)
                               THEN removeTried \cup {podSandboxID} ELSE removeTried
             /\ removed' = IF ok /\ Issued(podSandboxID)
                           THEN removed \cup {podSandboxID} ELSE removed
             /\ Returns(c, "DeletePodSandbox", podSandboxID, res.val, res.err,
                        <<Call("RemovePod", podSandboxID, ok)>>)
    /\ UNCHANGED <<nextID, pc, frame, calls, runFailed, runSucceeded, compensated,
                   createdFrom>>

PodSandboxStatus(c, podSandboxID) ==
    /\ pc[c] = "idle"
    /\ \E ok \in OnPodOutcomes(podSandboxID) :
          LET res == IF ok THEN PodSandboxStatusResult(podSandboxID, PodOf(podSandboxID))
                     ELSE statusFailed(podSandboxID, ErrOf("GetPodInfo", ok))
          IN Returns(c, "PodSandboxStatus", podSandboxID, res.val, res.err,
                     <<Call("GetPodInfo", podSandboxID, ok)>>)
    /\ UNCHANGED <<pods, nextID, pc, frame, calls, runFailed, removeTried, removed,
                   runSucceeded, compensated, createdFrom>>

ListPodSandbox(c, filter) ==
    /\ pc[c] = "idle"
    /\ \E ok \in BOOLEAN :
          LET res == IF ok THEN ListPodSandboxResult(pods, filter)
                     ELSE [val |-> None, err |-> ErrOf("GetPodList", ok)]
          IN Returns(c, "ListPodSandbox", filter, res.val, res.err,
                     <<Call("GetPodList", <<>>, ok)>>)
    /\ UNCHANGED <<pods, nextID, pc, frame, calls, runFailed, removeTried, removed,
                   runSucceeded, compensated, createdFrom>>

hyperRuntimeName == "hyper"

Version(c) ==
    /\ pc[c] = "idle"
    /\ \E ok \in BOOLEAN :
          Returns(c, "Version", <<>>,
                  IF ok THEN <<hyperRuntimeName, "0.6.0", "1.0">> ELSE <<"", "", "">>,
                  ErrOf("GetVersion", ok), <<Call("GetVersion", <<>>, ok)>>)
    /\ UNCHANGED <<pods, nextID, pc, frame, calls, runFailed, removeTried, removed,
                   runSucceeded, compensated, createdFrom>>

\* Mutant: the GetVersion error is not looked at.
conditionsAlwaysReady(err) ==
    <<[Type |-> "RuntimeReady", Status |-> TRUE, Reason |-> "", Message |-> ""],
      [Type |-> "NetworkReady", Status |-> TRUE, Reason |-> "", Message |-> ""]>>

\* The conditions Status reports once GetVersion has returned err.
conditions(err) ==
    LET runtimeReady ==
            IF err # NoErr
            THEN [Type |-> "RuntimeReady", Status |-> FALSE,
                  Reason |-> "HyperDaemonNotReady",
                  Message |-> "hyper: failed to get hyper version: " \o err]
            ELSE [Type |-> "RuntimeReady", Status |-> TRUE, Reason |-> "", Message |-> ""]
        networkReady ==
            [Type |-> "NetworkReady", Status |-> TRUE, Reason |-> "", Message |-> ""]
    IN <<runtimeReady, networkReady>>

Status(c) ==
    /\ pc[c] = "idle"
    /\ \E ok \in BOOLEAN :
          Returns(c, "Status", <<>>, conditions(ErrOf("GetVersion", ok)), NoErr,
                  <<Call("GetVersion", <<>>, ok)>>)
    /\ UNCHANGED <<pods, nextID, pc, frame, calls, runFailed, removeTried, removed,
                   runSucceeded, compensated, createdFrom>>

(***************************************************************************)
(* Inputs.                                                                 *)
(***************************************************************************)
NoLabels == [k \in {} |-> ""]

Meta(name, attempt) ==
    [Name |-> name, Namespace |-> <<"n">>, Uid |-> <<"u">>, Attempt |-> attempt]

Configs ==
    { [Metadata |-> Some(Meta(<<"a">>, 0)), Labels |-> (<<"k">> :> "v"),
       Annotations |-> (<<"m">> :> "w")],
      [Metadata |-> None, Labels |-> NoLabels, Annotations |-> NoLabels] }

Filter(id, state, selector) == [Id |-> id, State |-> state, LabelSelector |-> selector]

\* The filters tried: nil, and every combination of absent and present clauses.
Filters ==
    {None} \cup
    { Some(Filter(id, state, selector)) :
        id \in {None, Some(PodIDOf(2))},
        state \in {None, Some("Ready")},
        selector \in {None, Some(<<"k">> :> "v"), Some(<<"k">> :> "x")} }

\* Pod names: two that parse, one with too few fields, one whose attempt is
\* no number.
GoodNames == {buildSandboxName(Meta(<<"a">>, 0)), buildSandboxName(Meta(<<"b">>, 12))}
BadNames == {<<"x">>, <<"n", "_", "a", "_", "u", "_", "x">>}

MaxSeconds == I64Dec(FALSE, <<9, 2, 2, 3, 3, 7, 2, 0, 3, 6>>)
MinSeconds == I64Dec(TRUE, <<9, 2, 2, 3, 3, 7, 2, 0, 3, 6>>)
MaxInt64 == [i \in 1..I64Len |-> IF i = I64Len THEN Byte \div 2 - 1 ELSE Byte - 1]
MinInt64 == [i \in 1..I64Len |-> IF i = I64Len THEN Byte \div 2 ELSE 0]

\* Creation times, in seconds: small ones, the last ones whose nanoseconds
\* fit an int64, the first ones whose nanoseconds do not, and the extremes.
Timestamps ==
    { I64FromNat(0), I64FromNat(1000), I64Dec(TRUE, <<1>>),
      MaxSeconds, AddSmall(MaxSeconds, 1), MinSeconds, I64Neg(AddSmall(MaxSeconds, 1)),
      MaxInt64, MinInt64 }

Record(id, name, phase, labels, createdAt, ips) ==
    [PodID |-> id, PodName |-> name, Phase |-> phase, Labels |-> labels,
     CreatedAt |-> createdAt, PodIP |-> ips]

\* The records of the one-pod engine.
Records ==
    { Record(PodIDOf(1), name, phase, labels, createdAt, ips) :
        name \in GoodNames \cup BadNames,
        phase \in {"running", "pending", "unknown"},
        labels \in {NoLabels, (<<"k">> :> "v"),
                    (<<"k">> :> "v") @@ (<<"@", "m">> :> "w"),
                    (<<"k">> :> "v") @@ (<<"@", "k">> :> "w")},
        createdAt \in Timestamps,
        ips \in {<<>>, <<"10.0.0.5">>, <<"10.0.0.5", "10.0.0.6">>} }

\* The records of the pod lists: every combination of two phases, two label
\* maps and two creation times under a name that parses, and two records
\* under a name that does not.
ListRecords(id) ==
    { Record(id, buildSandboxName(Meta(<<"a">>, 0)), phase, labels, createdAt, <<>>) :
        phase \in {"running", "pending"},
        labels \in {NoLabels, (<<"k">> :> "v")},
        createdAt \in {I64FromNat(10), I64FromNat(20)} }
    \cup { Record(id, <<"x">>, phase, (<<"k">> :> "v"), I64FromNat(10), <<>>) :
             phase \in {"running", "pending"} }

\* The pod lists of len records, the i-th with the i-th pod id.
RECURSIVE PodListsOfLen(_)
PodListsOfLen(len) ==
    IF len = 0 THEN {<<>>}
    ELSE {Append(l, r) : l \in PodListsOfLen(len - 1), r \in ListRecords(PodIDOf(len))}

PodLists(n) == UNION {PodListsOfLen(len) : len \in 0..n}

(***************************************************************************)
(* The specifications.                                                     *)
(***************************************************************************)
IdleCallers ==
    /\ pc = [c \in Callers |-> "idle"]
    /\ frame = [c \in Callers |-> NoFrame]
    /\ calls = [c \in Callers |-> <<>>]
    /\ ret = NoReturn
    /\ runFailed = {}
    /\ runSucceeded = {}
    /\ compensated = {}
    /\ createdFrom = {}
    /\ removeTried = {}
    /\ removed = {}

\* The operations that create and remove pods, from any number of callers
\* at once, over an engine that starts empty.
Init == pods = <<>> /\ nextID = 0 /\ IdleCallers

Next ==
    \E c \in Callers :
        \/ \E config \in Configs : RunPodSandboxCreate(c, config)
        \/ RunPodSandboxStart(c)
        \/ RunPodSandboxRemove(c)
        \/ \E id \in PodIDs : DeletePodSandbox(c, id)

Spec == Init /\ [][Next]_vars

\* The operations on one pod, by one caller, over an engine holding any one
\* record.
InitRecord == pods \in {<<r>> : r \in Records} /\ nextID = 1 /\ IdleCallers

NextRecord ==
    \/ \E id \in {PodIDOf(1), PodIDOf(2)} : PodSandboxStatus(1, id)
    \/ \E id \in {PodIDOf(1), PodIDOf(2)} : StopPodSandbox(1, id)
    \/ \E filter \in {None, Some(Filter(None, Some("Ready"), None))} :
          ListPodSandbox(1, filter)
    \/ Version(1)
    \/ Status(1)

SpecRecord == InitRecord /\ [][NextRecord]_vars

\* One listing with any filter, over an engine holding any short list of
\* records.
InitList ==
    /\ pods \in PodLists(MaxListLen)
    /\ nextID = Len(pods)
    /\ IdleCallers

NextList == ret = NoReturn /\ \E filter \in Filters : ListPodSandbox(1, filter)

SpecList == InitList /\ [][NextList]_vars

\* The five sandbox operations one after another, by one caller: every call
\* runs to its return under every pattern of client failures.  hyperd holds
\* no pod at first and has two creates left to grant.
\* The configs of SpecOps: those of Configs, one whose name and one whose uid
\* hold the separator of the pod name.
OpsConfigs ==
    Configs \cup
    { [Metadata |-> Some(Meta(<<"a", "_", "b">>, 0)), Labels |-> NoLabels,
       Annotations |-> NoLabels],
      [Metadata |-> Some([Meta(<<"a">>, 1) EXCEPT !.Uid = <<"u", "_">>]),
       Labels |-> NoLabels, Annotations |-> NoLabels] }

InitOps == pods = <<>> /\ nextID = MaxCreates - 2 /\ IdleCallers

NextOps ==
    \/ \E config \in OpsConfigs : RunPodSandboxCreate(1, config)
    \/ RunPodSandboxStart(1)
    \/ RunPodSandboxRemove(1)
    \/ \E id \in PodIDs : StopPodSandbox(1, id)
    \/ \E id \in PodIDs : DeletePodSandbox(1, id)
    \/ \E id \in PodIDs : PodSandboxStatus(1, id)
    \/ ListPodSandbox(1, None)

SpecOps == InitOps /\ [][NextOps]_vars

(***************************************************************************)
(* Properties of RunPodSandbox (under Spec).  ret is the call that         *)
(* returned last, so an invariant on ret is a property of every call.      *)
(***************************************************************************)
RunReturned == ret.op = "RunPodSandbox"

Made(op) == LET Is(e) == e.op = op IN SelectSeq(ret.calls, Is)
HasMade(call) == \E i \in 1..Len(ret.calls) : ret.calls[i] = call

\* The returned call created pod X and its StartPod(X) failed.
StartFailedOn(X) ==
    /\ RunReturned
    /\ HasMade(Call("CreatePod", X, TRUE))
    /\ HasMade(Call("StartPod", X, FALSE))

\* C1: when CreatePod succeeds with id X and StartPod(X) fails, RemovePod(X)
\* is called exactly once, the error returned is the StartPod error whether
\* RemovePod succeeds or fails, and no id is returned.
C1_StartFailureRemovesOnce ==
    \A X \in PodIDs :
        StartFailedOn(X) =>
            /\ Len(Made("RemovePod")) = 1
            /\ Made("RemovePod")[1].id = X
            /\ ret.err = "StartPodError"
            /\ ret.val = <<>>

\* A call whose StartPod and compensating RemovePod both failed has returned.
C1_Witness ==
    \E X \in PodIDs :
        /\ StartFailedOn(X)
        /\ HasMade(Call("RemovePod", X, FALSE))
        /\ ret.err = "StartPodError"

\* C2: every pod created by a RunPodSandbox call that has returned an error
\* has had a RemovePod attempt on its id, and when a RemovePod on it
\* succeeded hyperd no longer holds it.
C2_FailedRunTriedRemove ==
    \A id \in runFailed :
        /\ id \in removeTried
        /\ id \in removed => ~HasPod(id)

\* Two failed calls have returned: the pod of one is gone, the pod of the
\* other is still held because its RemovePod failed too.
C2_Witness ==
    /\ \E id \in runFailed : id \in removed /\ ~HasPod(id)
    /\ \E id \in runFailed : id \notin removed /\ HasPod(id)

\* C3: when CreatePod fails, its error is returned and neither StartPod nor
\* RemovePod is called.
C3_CreateFailureReturned ==
    (RunReturned /\ \E i \in 1..Len(ret.calls) :
                        ret.calls[i].op = "CreatePod" /\ ~ret.calls[i].ok)
        => /\ ret.err = "CreatePodError"
           /\ ret.val = <<>>
           /\ Made("StartPod") = <<>>
           /\ Made("RemovePod") = <<>>

C3_Witness ==
    /\ RunReturned
    /\ ret.calls = <<Call("CreatePod", <<>>, FALSE)>>
    /\ ret.err = "CreatePodError"

\* C4: when the pod specification cannot be built from the config, the build
\* error is returned and no client call is made.
C4_BuildFailureCallsNothing ==
    (RunReturned /\ buildUserPod(ret.arg).err # NoErr)
        => /\ ret.err = buildUserPod(ret.arg).err
           /\ ret.val = <<>>
           /\ ret.calls = <<>>

C4_Witness ==
    /\ RunReturned
    /\ ~IsSet(ret.arg.Metadata)
    /\ ret.err = "SpecBuildError"
    /\ ret.calls = <<>>

\* The build, CreatePod and StartPod of the returned call all succeeded.
AllSucceeded ==
    /\ buildUserPod(ret.arg).err = NoErr
    /\ \E i \in 1..Len(ret.calls) : ret.calls[i].op = "CreatePod" /\ ret.calls[i].ok
    /\ \E i \in 1..Len(ret.calls) : ret.calls[i].op = "StartPod" /\ ret.calls[i].ok

\* C5: RunPodSandbox returns an id without error exactly when the build,
\* CreatePod and StartPod all succeed; the id is then the one CreatePod
\* returned, StartPod is called once, with that id and after CreatePod, and
\* RemovePod is not called.
C5_SuccessIffAllSucceed ==
    RunReturned =>
        /\ (ret.err = NoErr /\ ret.val # <<>>) <=> AllSucceeded
        /\ ret.err = NoErr =>
              ret.calls = <<Call("CreatePod", ret.val, TRUE),
                            Call("StartPod", ret.val, TRUE)>>

\* A call has returned the id of a pod that hyperd holds running.
C5_Witness ==
    /\ RunReturned
    /\ ret.err = NoErr
    /\ ret.val \in PodIDs
    /\ HasPod(ret.val) /\ PodOf(ret.val).Phase = "running"

(***************************************************************************)
(* Properties of ListPodSandbox (under SpecList, where pods is the list    *)
(* GetPodList returned to the call in ret).                                *)
(***************************************************************************)
\* The last call was a ListPodSandbox whose GetPodList succeeded.
ListReturned == ret.op = "ListPodSandbox" /\ ret.calls = <<Call("GetPodList", <<>>, TRUE)>>

Decodes(pod) == parseSandboxName(pod.PodName).err = NoErr
AllDecode == \A i \in 1..Len(pods) : Decodes(pods[i])

\* C6: when some record's name fails to decode, at any position and under
\* any filter, ListPodSandbox fails with the decode error and returns no
\* items, not even those of the records before the malformed one.
C6_BadNameFailsList ==
    (ListReturned /\ ~AllDecode)
        => /\ ret.err = "InvalidNameFormat"
           /\ ret.val = None

\* The malformed record is the last of three, behind two records that parse
\* and that the filter, with all its clauses absent or nil, lets through.
C6_Witness ==
    /\ ListReturned
    /\ Len(pods) = 3
    /\ Decodes(pods[1]) /\ Decodes(pods[2]) /\ ~Decodes(pods[3])
    /\ ret.arg = None
    /\ ret.err = "InvalidNameFormat"
    /\ ret.val = None

\* The record satisfies every clause the filter holds.
Matches(R, filter) ==
    \/ filter = None
    \/ /\ Get(filter).Id = None \/ Get(filter).Id = Some(R.PodID)
       /\ Get(filter).State = None
            \/ Get(filter).State = Some(IF R.Phase = "running" THEN "Ready"
                                        ELSE "NotReady")
       /\ Get(filter).LabelSelector = None
            \/ \A k \in DOMAIN Get(Get(filter).LabelSelector) :
                  /\ k \in DOMAIN R.Labels
                  /\ R.Labels[k] = Get(Get(filter).LabelSelector)[k]

ItemsOf(id) == LET Is(item) == item.Id = id IN SelectSeq(Get(ret.val), Is)

\* C7: when all names decode, a record is in the result, as exactly one item
\* with the record's id, exactly when it satisfies every clause the filter
\* holds; a nil filter returns one item for every record.
C7_ListedIffMatches ==
    (ListReturned /\ AllDecode)
        => /\ ret.err = NoErr
           /\ IsSet(ret.val)
           /\ \A i \in 1..Len(pods) :
                 Len(ItemsOf(pods[i].PodID)) = IF Matches(pods[i], ret.arg) THEN 1 ELSE 0
           /\ \A j \in 1..Len(Get(ret.val)) :
                 \E i \in 1..Len(pods) : pods[i].PodID = Get(ret.val)[j].Id
           /\ ret.arg = None => Len(Get(ret.val)) = Len(pods)

\* A filter with all three clauses picks the second of three records: the
\* first fails the id clause only, the third fails all three.
C7_Witness ==
    /\ ListReturned
    /\ Len(pods) = 3
    /\ ret.arg = Some(Filter(Some(PodIDOf(2)), Some("Ready"), Some(<<"k">> :> "v")))
    /\ pods[1].Phase = "running" /\ pods[1].Labels = (<<"k">> :> "v")
    /\ pods[3].Phase = "pending" /\ pods[3].Labels = NoLabels
    /\ ret.err = NoErr
    /\ Len(Get(ret.val)) = 1
    /\ Get(ret.val)[1].Id = PodIDOf(2)

PositionOf(id) == CHOOSE i \in 1..Len(pods) : pods[i].PodID = id

\* C8: the items are in the order of their creation timestamps, oldest
\* first, and items of equal timestamps are in the order of their records in
\* the list GetPodList returned.
C8_SortedAndStable ==
    (ListReturned /\ ret.err = NoErr)
        => \A i, j \in 1..Len(Get(ret.val)) :
              i < j =>
                 LET a == Get(ret.val)[i]
                     b == Get(ret.val)[j]
                 IN /\ I64LessEq(a.CreatedAt, b.CreatedAt)
                    /\ a.CreatedAt = b.CreatedAt
                         => PositionOf(a.Id) < PositionOf(b.Id)

\* Records created at 20, 10, 10 seconds are listed second, third, first.
C8_Witness ==
    /\ ListReturned
    /\ ret.err = NoErr
    /\ Len(pods) = 3
    /\ pods[1].CreatedAt = I64FromNat(20)
    /\ pods[2].CreatedAt = I64FromNat(10)
    /\ pods[3].CreatedAt = I64FromNat(10)
    /\ Len(Get(ret.val)) = 3
    /\ [i \in 1..3 |-> Get(ret.val)[i].Id] = <<PodIDOf(2), PodIDOf(3), PodIDOf(1)>>

(***************************************************************************)
(* Properties of the translation of one record (under SpecRecord, where    *)
(* pods holds the record the call in ret was answered with).               *)
(***************************************************************************)
StatusReturned == ret.op = "PodSandboxStatus" /\ ret.err = NoErr
ListOfOneReturned == ret.op = "ListPodSandbox" /\ ret.err = NoErr

\* The (seconds of the record, nanoseconds reported) pairs of the last call.
ReportedTimes ==
    IF StatusReturned
    THEN {<<PodOf(ret.arg).CreatedAt, Get(ret.val).CreatedAt>>}
    ELSE IF ListOfOneReturned
    THEN {<<PodOf(Get(ret.val)[i].Id).CreatedAt, Get(ret.val)[i].CreatedAt>> :
             i \in 1..Len(Get(ret.val))}
    ELSE {}

\* The nanoseconds reported are exactly seconds times 1,000,000,000.
IsExact(p) == MathOf(p[2]) = MathTimes(MathOf(p[1]), secondToNano)

\* The seconds whose nanoseconds fit an int64.
FitsNanos(t) == I64LessEq(MinSeconds, t) /\ I64LessEq(t, MaxSeconds)

\* C9 as stated: for every int64 t the timestamp reported is exactly
\* t * 1,000,000,000, with no wrap-around.
C9_ExactForEveryInt64 == \A p \in ReportedTimes : IsExact(p)

\* C9 as amended: the timestamp reported by PodSandboxStatus and by
\* ListPodSandbox is exactly t * 1,000,000,000 if and only if
\* -9223372036 <= t <= 9223372036; beyond, the int64 product has wrapped.
C9_ExactIffNanosFit == \A p \in ReportedTimes : IsExact(p) <=> FitsNanos(p[1])

\* The largest seconds that fit, reported by both operations.
C9_Witness ==
    /\ StatusReturned \/ (ListOfOneReturned /\ Len(Get(ret.val)) = 1)
    /\ \E p \in ReportedTimes :
          /\ p[1] = MaxSeconds
          /\ p[2] = I64Dec(FALSE, <<9, 2, 2, 3, 3, 7, 2, 0, 3, 6,
                                    0, 0, 0, 0, 0, 0, 0, 0, 0>>)

\* C10: when GetPodInfo succeeds and the name decodes, the status has the
\* requested id, the state of the record's phase (Ready for "running"), the
\* decoded name as metadata, and the first address, or "" when there is none.
C10_StatusFields ==
    (/\ ret.op = "PodSandboxStatus"
     /\ ret.calls = <<Call("GetPodInfo", ret.arg, TRUE)>>
     /\ Decodes(PodOf(ret.arg)))
        => LET info == PodOf(ret.arg)
           IN /\ ret.err = NoErr
              /\ IsSet(ret.val)
              /\ Get(ret.val).Id = ret.arg
              /\ Get(ret.val).State = toPodSandboxState(info.Phase)
              /\ info.Phase = "running" => Get(ret.val).State = "Ready"
              /\ Get(ret.val).Metadata =
                    [Name |-> parseSandboxName(info.PodName).podName,
                     Namespace |-> parseSandboxName(info.PodName).podNamespace,
                     Uid |-> parseSandboxName(info.PodName).podUID,
                     Attempt |-> parseSandboxName(info.PodName).attempt]
              /\ Get(ret.val).Network.Ip =
                    IF info.PodIP = <<>> THEN "" ELSE Head(info.PodIP)

\* A running pod created at 1000 seconds with two addresses: Ready,
\* 1,000,000,000,000 nanoseconds, the first address.
C10_Witness ==
    /\ StatusReturned
    /\ PodOf(ret.arg).Phase = "running"
    /\ PodOf(ret.arg).CreatedAt = I64FromNat(1000)
    /\ PodOf(ret.arg).PodIP = <<"10.0.0.5", "10.0.0.6">>
    /\ PodOf(ret.arg).PodName = buildSandboxName(Meta(<<"b">>, 12))
    /\ Get(ret.val).State = "Ready"
    /\ Get(ret.val).CreatedAt = I64Dec(FALSE, <<1, 0, 0, 0, 0, 0, 0, 0, 0, 0, 0, 0, 0>>)
    /\ Get(ret.val).Network.Ip = "10.0.0.5"
    /\ Get(ret.val).Metadata = Meta(<<"b">>, 12)

(***************************************************************************)
(* Properties of the error returns of the operations on one pod (under     *)
(* SpecRecord).                                                            *)
(***************************************************************************)
StatusCalled == ret.op = "PodSandboxStatus"
GetPodInfoFailed == StatusCalled /\ ret.calls = <<Call("GetPodInfo", ret.arg, FALSE)>>
GetPodInfoSucceeded == StatusCalled /\ ret.calls = <<Call("GetPodInfo", ret.arg, TRUE)>>

\* C11: PodSandboxStatus returns no status and the GetPodInfo error when
\* GetPodInfo fails, no status and the parse error when the record's name
\* does not parse, and never a status beside an error.
C11_NoStatusOnError ==
    /\ GetPodInfoFailed => ret.val = None /\ ret.err = "GetPodInfoError"
    /\ (GetPodInfoSucceeded /\ ~Decodes(PodOf(ret.arg)))
          => ret.val = None /\ ret.err = "InvalidNameFormat"
    /\ StatusCalled => (IsSet(ret.val) <=> ret.err = NoErr)

\* The status of a running pod with labels whose name's attempt is no number
\* has been asked for, and only the parse error came back.
C11_Witness ==
    /\ GetPodInfoSucceeded
    /\ PodOf(ret.arg).PodName = <<"n", "_", "a", "_", "u", "_", "x">>
    /\ PodOf(ret.arg).Phase = "running"
    /\ PodOf(ret.arg).Labels = (<<"k">> :> "v")
    /\ ret.val = None
    /\ ret.err = "InvalidNameFormat"

StopCalled == ret.op = "StopPodSandbox"
StopFailed == StopCalled /\ Len(ret.calls) = 1 /\ ~ret.calls[1].ok

\* C12 as stated: when StopPod fails, StopPodSandbox has called it once and
\* hands its caller the engine's error together with the code and the cause
\* StopPod reported.
C12_DiagnosticsReturned ==
    (StopCalled /\ ret.err # NoErr)
        => /\ Made("StopPod") = ret.calls
           /\ Len(ret.calls) = 1
           /\ ret.err = "StopPodError"
           /\ ret.val = <<ret.calls[1].code, ret.calls[1].cause>>

\* What the code does instead: after one StopPod the caller gets the error
\* alone, whatever code and cause came with it.
C12_ErrorAloneReturned ==
    StopCalled
        => /\ Made("StopPod") = ret.calls
           /\ Len(ret.calls) = 1
           /\ ret.calls[1].id = ret.arg
           /\ ret.err = ErrOf("StopPod", ret.calls[1].ok)
           /\ ret.val = <<>>

\* StopPod on the pod failed with code 500 and a cause, and the call returned
\* the error without them.
C12_Witness ==
    /\ StopFailed
    /\ HasPod(ret.arg)
    /\ ret.calls[1].code = 500
    /\ ret.calls[1].cause = "ShutdownTimeout"
    /\ ret.err = "StopPodError"
    /\ ret.val = <<>>

(***************************************************************************)
(* Properties of every operation's client calls (under SpecOps).           *)
(***************************************************************************)
SandboxOps ==
    {"RunPodSandbox", "StopPodSandbox", "DeletePodSandbox", "PodSandboxStatus",
     "ListPodSandbox"}
Primitives == {"CreatePod", "StartPod", "StopPod", "RemovePod", "GetPodInfo", "GetPodList"}

\* The i-th client call of the returned call is RunPodSandbox's compensating
\* RemovePod.
IsCompensation(i) == ret.op = "RunPodSandbox" /\ ret.calls[i].op = "RemovePod"

\* C13: a call of any of the five operations has called each client
\* primitive at most once, and every client call of it that failed, the
\* compensating RemovePod excepted, has its error returned by the call.
C13_NoRetryAndErrorsReturned ==
    ret.op \in SandboxOps
        => /\ \A op \in Primitives : Len(Made(op)) <= 1
           /\ \A i \in 1..Len(ret.calls) :
                 (~ret.calls[i].ok /\ ~IsCompensation(i))
                    => ret.err = ErrOf(ret.calls[i].op, FALSE)

\* A RunPodSandbox call has returned whose StartPod and compensating
\* RemovePod both failed: three client calls, the StartPod error returned.
C13_Witness ==
    /\ ret.op = "RunPodSandbox"
    /\ Len(ret.calls) = 3
    /\ ret.calls[1].op = "CreatePod" /\ ret.calls[1].ok
    /\ ret.calls[2].op = "StartPod" /\ ~ret.calls[2].ok
    /\ ret.calls[3].op = "RemovePod" /\ ~ret.calls[3].ok
    /\ ret.err = "StartPodError"

DeleteCalled == ret.op = "DeletePodSandbox"

\* C14: whether or not the engine holds the pod, DeletePodSandbox(id) makes
\* one client call, RemovePod(id), and returns what RemovePod returned:
\* nil when it succeeded, its error when it failed.
C14_DeleteIsOneRemovePod ==
    DeleteCalled
        => /\ Len(ret.calls) = 1
           /\ ret.calls[1] \in {Call("RemovePod", ret.arg, ok) : ok \in BOOLEAN}
           /\ ret.err = ErrOf("RemovePod", ret.calls[1].ok)
           /\ ret.val = <<>>

\* A pod that an earlier delete has removed is deleted again, RemovePod fails
\* on the absent pod and its error is what the call returns.
C14_Witness ==
    /\ DeleteCalled
    /\ ret.arg \in removed
    /\ ~HasPod(ret.arg)
    /\ ret.calls = <<Call("RemovePod", ret.arg, FALSE)>>
    /\ ret.err = "RemovePodError"

(***************************************************************************)
(* Properties of the labels and annotations of a status (under             *)
(* SpecRecord).                                                            *)
(***************************************************************************)
IsMarked(key) == HasPrefix(key, annotationMarker)

\* Engine key key is represented among the labels: unmarked and there
\* verbatim with its value.
InLabels(status, engine, key) ==
    ~IsMarked(key) /\ key \in DOMAIN status.Labels /\ status.Labels[key] = engine[key]

\* Engine key key is represented among the annotations: marked and there
\* without the marker, with its value.
InAnnotations(status, engine, key) ==
    /\ IsMarked(key)
    /\ TrimPrefix(key, annotationMarker) \in DOMAIN status.Annotations
    /\ status.Annotations[TrimPrefix(key, annotationMarker)] = engine[key]

\* Every engine key is represented in exactly one of the two maps, and the
\* two maps hold nothing else.
SplitsEveryKey(status, engine) ==
    /\ \A key \in DOMAIN engine :
          InLabels(status, engine, key) # InAnnotations(status, engine, key)
    /\ DOMAIN status.Labels = {key \in DOMAIN engine : ~IsMarked(key)}
    /\ DOMAIN status.Annotations =
          {TrimPrefix(key, annotationMarker) : key \in {x \in DOMAIN engine : IsMarked(x)}}

DisjointKeys(status) == DOMAIN status.Labels \cap DOMAIN status.Annotations = {}

\* The engine map holds a key both bare and under the marker.
HoldsKeyTwice(engine) ==
    \E key \in DOMAIN engine : ~IsMarked(key) /\ (annotationMarker \o key) \in DOMAIN engine

\* C15 as stated: for every engine map the labels and the annotations of the
\* status have disjoint key sets and every engine key is represented in
\* exactly one of them.
C15_DisjointAndEveryKeyOnce ==
    StatusReturned
        => /\ DisjointKeys(Get(ret.val))
           /\ SplitsEveryKey(Get(ret.val), PodOf(ret.arg).Labels)

\* C15 as amended: every engine key is represented in exactly one of the two
\* maps (marked keys without the marker among the annotations, the others
\* verbatim among the labels), and the two key sets are disjoint if and only
\* if the engine map holds no key both bare and under the marker.
C15_EveryKeyOnceDisjointIffNoTwin ==
    StatusReturned
        => /\ SplitsEveryKey(Get(ret.val), PodOf(ret.arg).Labels)
           /\ DisjointKeys(Get(ret.val)) <=> ~HoldsKeyTwice(PodOf(ret.arg).Labels)

\* The status of a pod whose engine map holds k and the marked k: label k
\* and annotation k.
C15_Witness ==
    /\ StatusReturned
    /\ PodOf(ret.arg).Labels = (<<"k">> :> "v") @@ (<<"@", "k">> :> "w")
    /\ Get(ret.val).Labels = (<<"k">> :> "v")
    /\ Get(ret.val).Annotations = (<<"k">> :> "w")

(***************************************************************************)
(* Properties of the metadata of the pods RunPodSandbox creates (under     *)
(* SpecOps, where one caller makes one call after another: when no call is *)
(* in flight, pods is what the call in ret was answered from).             *)
(***************************************************************************)
NoCallInFlight == \A c \in Callers : pc[c] = "idle"

\* Parsing the sandbox name built from m gives m back.
RoundTrips(m) ==
    LET parsed == parseSandboxName(buildSandboxName(m))
    IN /\ parsed.err = NoErr
       /\ parsed.podName = m.Name
       /\ parsed.podNamespace = m.Namespace
       /\ parsed.podUID = m.Uid
       /\ parsed.attempt = m.Attempt

HasSeparator(s) == \E i \in 1..Len(s) : s[i] = nameSeparator

\* The status in ret, when it is of pod id, and the listing in ret, when the
\* engine holds pod id and the names of the pods in Others parse, report
\* metadata m for pod id.
ReportsMetadata(id, m, Others) ==
    /\ GetPodInfoSucceeded /\ ret.arg = id
          => ret.err = NoErr /\ Get(ret.val).Metadata = m
    /\ (/\ ListReturned /\ ret.arg = None /\ HasPod(id)
        /\ \A i \in 1..Len(pods) : pods[i].PodID \in Others => Decodes(pods[i]))
          => /\ ret.err = NoErr
             /\ \E i \in 1..Len(Get(ret.val)) :
                   Get(ret.val)[i].Id = id /\ Get(ret.val)[i].Metadata = m

\* The ids of the pods RunPodSandbox calls have created.
MadeByRun == {made[1] : made \in createdFrom}

C16_RoundTripsIffNoSeparator ==
    \A made \in createdFrom :
        LET m == made[2]
            clean == ~HasSeparator(m.Name) /\ ~HasSeparator(m.Namespace)
                        /\ ~HasSeparator(m.Uid)
        IN /\ RoundTrips(m) <=> clean
           /\ ~clean => parseSandboxName(buildSandboxName(m)).err = "InvalidNameFormat"
           /\ (clean /\ NoCallInFlight)
                 => ReportsMetadata(made[1], m, PodIDs \ {made[1]})

SandboxStates == {"Ready", "NotReady"}

\* C17: whatever the phase of a record whose name parses, PodSandboxStatus
\* and ListPodSandbox succeed once the client call has, and report Ready or
\* NotReady: NotReady for every phase but "running", unrecognized ones
\* included.
C17_EveryPhaseHasAState ==
    /\ (GetPodInfoSucceeded /\ Decodes(PodOf(ret.arg)))
          => /\ ret.err = NoErr
             /\ Get(ret.val).State \in SandboxStates
             /\ PodOf(ret.arg).Phase # "running" => Get(ret.val).State = "NotReady"
    /\ (ListReturned /\ AllDecode)
          => /\ ret.err = NoErr
             /\ \A i \in 1..Len(Get(ret.val)) :
                   LET item == Get(ret.val)[i]
                   IN /\ item.State \in SandboxStates
                      /\ PodOf(item.Id).Phase # "running" => item.State = "NotReady"
             /\ ret.arg = None => Len(Get(ret.val)) = Len(pods)

\* The status of a pod in the phase "unknown" has been returned: NotReady.
C17_Witness ==
    /\ StatusReturned
    /\ PodOf(ret.arg).Phase = "unknown"
    /\ Get(ret.val).State = "NotReady"

(***************************************************************************)
(* Properties of the listing and the status of one record (under           *)
(* SpecRecord).                                                            *)
(***************************************************************************)
\* The status PodSandboxStatus returns for the record the summary item is of.
StatusOf(item) == PodSandboxStatusResult(item.Id, PodOf(item.Id))

AgreesBesideLabels(item, status) ==
    /\ item.Id = status.Id
    /\ item.Metadata = status.Metadata
    /\ item.State = status.State
    /\ item.CreatedAt = status.CreatedAt

\* C18 as stated: every summary ListPodSandbox returns agrees with the
\* status of the same record in id, metadata, state, creation time and
\* labels, and none of its label keys carries the annotation marker.
C18_SummaryAgreesWithStatus ==
    ListOfOneReturned
        => \A i \in 1..Len(Get(ret.val)) :
              LET item == Get(ret.val)[i]
              IN /\ StatusOf(item).err = NoErr
                 /\ AgreesBesideLabels(item, Get(StatusOf(item).val))
                 /\ item.Labels = Get(StatusOf(item).val).Labels
                 /\ \A key \in DOMAIN item.Labels : ~IsMarked(key)

\* What the code does instead: the summary agrees with the status in id,
\* metadata, state and creation time, but its labels are the engine's whole
\* map, marked keys included, and so equal the labels of the status only
\* when the map holds no marked key.
C18_SummaryLabelsAreEngineMap ==
    ListOfOneReturned
        => \A i \in 1..Len(Get(ret.val)) :
              LET item == Get(ret.val)[i]
                  engine == PodOf(item.Id).Labels
              IN /\ StatusOf(item).err = NoErr
                 /\ AgreesBesideLabels(item, Get(StatusOf(item).val))
                 /\ item.Labels = engine
                 /\ item.Labels = Get(StatusOf(item).val).Labels
                       <=> \A key \in DOMAIN engine : ~IsMarked(key)

\* A record with label k and the marked key m has been listed: its summary
\* holds both keys, the status of the same record holds k alone.
C18_Witness ==
    /\ ListOfOneReturned
    /\ Len(Get(ret.val)) = 1
    /\ pods[1].Labels = (<<"k">> :> "v") @@ (<<"@", "m">> :> "w")
    /\ Get(ret.val)[1].Labels = (<<"k">> :> "v") @@ (<<"@", "m">> :> "w")
    /\ Get(StatusOf(Get(ret.val)[1]).val).Labels = (<<"k">> :> "v")

(***************************************************************************)
(* Properties of concurrent RunPodSandbox calls (under Spec).              *)
(***************************************************************************)
InFlight(c) == pc[c] \in {"start", "remove"}

\* C19: under every interleaving, a RunPodSandbox call in flight holds the
\* id its own CreatePod returned and no other call holds it, a returned call
\* has passed to StartPod and RemovePod that id only, and no id that a
\* RunPodSandbox call has returned successfully was ever passed to a
\* compensating RemovePod.
C19_OwnIDOnly ==
    /\ \A c \in Callers :
          InFlight(c)
             => /\ calls[c][1] = Call("CreatePod", frame[c].podID, TRUE)
                /\ \A i \in 2..Len(calls[c]) : calls[c][i].id = frame[c].podID
                /\ \A d \in Callers \ {c} :
                      InFlight(d) => frame[d].podID # frame[c].podID
                /\ frame[c].podID \notin runSucceeded
    /\ RunReturned
          => \A i \in 2..Len(ret.calls) :
                /\ ret.calls[1].op = "CreatePod" /\ ret.calls[1].ok
                /\ ret.calls[i].op \in {"StartPod", "RemovePod"}
                /\ ret.calls[i].id = ret.calls[1].id
    /\ compensated \cap runSucceeded = {}

\* Two calls have overlapped: the call that created the first pod failed at
\* StartPod and removed its pod after the call that created the second pod
\* had returned it, and the second pod is still there.
C19_Witness ==
    /\ RunReturned
    /\ ret.calls = <<Call("CreatePod", PodIDOf(1), TRUE), Call("StartPod", PodIDOf(1), FALSE),
                     Call("RemovePod", PodIDOf(1), TRUE)>>
    /\ PodIDOf(2) \in runSucceeded
    /\ compensated = {PodIDOf(1)}
    /\ HasPod(PodIDOf(2))
    /\ ~HasPod(PodIDOf(1))

(***************************************************************************)
(* Properties of Status and Version (under SpecRecord).                    *)
(***************************************************************************)
GetVersionCalledOnce ==
    Len(ret.calls) = 1 /\ ret.calls[1] \in {Call("GetVersion", <<>>, ok) : ok \in BOOLEAN}

\* C20: Status calls GetVersion once, returns no error and two conditions:
\* RuntimeReady, true if and only if GetVersion succeeded and with the reason
\* HyperDaemonNotReady when it failed, and NetworkReady, always true.
\* Version calls GetVersion once and returns its error.
C20_StatusNeverFails ==
    /\ ret.op = "Status"
          => /\ GetVersionCalledOnce
             /\ ret.err = NoErr
             /\ Len(ret.val) = 2
             /\ ret.val[1].Type = "RuntimeReady"
             /\ ret.val[1].Status = ret.calls[1].ok
             /\ ~ret.calls[1].ok => ret.val[1].Reason = "HyperDaemonNotReady"
             /\ ret.val[2].Type = "NetworkReady"
             /\ ret.val[2].Status = TRUE
    /\ ret.op = "Version"
          => /\ GetVersionCalledOnce
             /\ ret.err = ErrOf("GetVersion", ret.calls[1].ok)
             /\ ret.calls[1].ok => ret.val[1] = hyperRuntimeName
             /\ ~ret.calls[1].ok => ret.val = <<"", "", "">>

\* Status has returned after a failed GetVersion: no error, the runtime not
\* ready, the network ready.
C20_Witness ==
    /\ ret.op = "Status"
    /\ ret.calls = <<Call("GetVersion", <<>>, FALSE)>>
    /\ ret.err = NoErr
    /\ ~ret.val[1].Status
    /\ ret.val[1].Reason = "HyperDaemonNotReady"
    /\ ret.val[2].Status

====
